---- MODULE Spec2Model ----
(***************************************************************************)
(* A model of pyspark/main.py: the synonym provider (get_synonyms), the    *)
(* sentence augmenter (synonym_replacement), the augmentation gate         *)
(* (augment_example) mapped over the dataset, the corpus filter            *)
(* (filter_sentences_by_token_limit) and the hyperparameter search         *)
(* (model_training_function under study.optimize, then best_trial).        *)
(*                                                                         *)
(* Strings are sequences of one-character strings, so that split, join and *)
(* replace('_', ' ') are computed and not assumed.                         *)
(***************************************************************************)
EXTENDS Integers, Sequences, FiniteSets, TLC

VARIABLES
    pc,               \* position of the running function
    lexicon,          \* WordNet: a set of synsets, each a set of lemma names
    word,             \* get_synonyms: the argument
    syn_result,       \* get_synonyms: the returned list, as a set
    caller,           \* who called synonym_replacement: "direct" or "augment_example"
    sentence,         \* synonym_replacement: the argument sentence
    n,                \* synonym_replacement / augment_example: the argument n
    words,            \* sentence.split()
    new_words,        \* the working copy
    random_word_list, \* the shuffled candidate list
    idx,              \* position of the for loop in random_word_list
    num_replaced,     \* the replacement counter
    replaced,         \* history: the candidates substituted so far
    result,           \* the returned sentence
    rng,              \* number of values drawn from the global random module
    data,             \* the Dataset of {text} examples (line 101)
    cur,              \* Dataset.map: index of the example being mapped
    augment_rate,     \* augment_example: the argument, in units of 1/RateDenom
    draw,             \* random.uniform(0, 1), in units of 1/RateDenom
    augmented_text,   \* augment_example: the local
    augmented_data,   \* the Dataset returned by map
    input_file,       \* lines of the input file
    output_file,      \* lines of the output file
    max_tokens,       \* filter: the argument
    pos,              \* filter: index of the next input line
    trials,           \* the study's trial records
    fs,               \* who wrote each ./best_model_trial_<k> directory
    best_trial,       \* study.best_trial (its number), or -1
    best_model_path   \* the path of line 163, or <<>>

synVars    == <<word, syn_result>>
srVars     == <<caller, sentence, n, words, new_words, random_word_list, idx,
                num_replaced, replaced, result>>
augVars    == <<data, cur, augment_rate, draw, augmented_text, augmented_data>>
filterVars == <<input_file, output_file, max_tokens, pos>>
searchVars == <<trials, fs, best_trial, best_model_path>>
vars == <<pc, lexicon, rng, synVars, srVars, augVars, filterVars, searchVars>>

----------------------------------------------------------------------------
\* Bounds of the model.
MaxLen      == 4   \* characters in a sentence
MaxN        == 2   \* the argument n ranges over 0..MaxN
MaxSynsets  == 2   \* synsets in the lexical database
MaxExamples == 2   \* examples in the dataset
RateDenom   == 2   \* probabilities are multiples of 1/RateDenom
MaxLineLen  == 3   \* characters in a line of the corpus
MaxLines    == 2   \* lines in the input file
MaxTokens   == 2   \* the argument max_tokens ranges over 0..MaxTokens
MaxLoss     == 3   \* eval_loss ranges over 1..MaxLoss, or is nan

Letters      == {"q", "f"}
SentenceChar == Letters \cup {" "}

Range(s) == {s[i] : i \in DOMAIN s}

\* The lemma names the database may hold; "f_q" is a multi-word lemma.
LemmaNames == { <<"q">>, <<"f">>, <<"f", "_", "q">> }
Synsets    == SUBSET LemmaNames \ {{}}
Databases  == {db \in SUBSET Synsets : Cardinality(db) <= MaxSynsets}
Sentences  == UNION {[1..k -> SentenceChar] : k \in 0..MaxLen}
QueryWords == LemmaNames \cup { <<"f", " ", "q">>, <<"q", "q">> }

----------------------------------------------------------------------------
\* str.split(): the maximal runs of non-whitespace characters, in order.
RECURSIVE SplitAcc(_, _, _)
SplitAcc(s, token, acc) ==
    IF s = <<>>
    THEN IF token = <<>> THEN acc ELSE Append(acc, token)
    ELSE IF Head(s) = " "
         THEN SplitAcc(Tail(s), <<>>, IF token = <<>> THEN acc ELSE Append(acc, token))
         ELSE SplitAcc(Tail(s), Append(token, Head(s)), acc)

split(s) == SplitAcc(s, <<>>, <<>>)

\* ' '.join(ws)
RECURSIVE join(_)
join(ws) ==
    IF ws = <<>> THEN <<>>
    ELSE IF Len(ws) = 1 THEN ws[1]
    ELSE ws[1] \o <<" ">> \o join(Tail(ws))

\* lem.name().replace('_', ' ')
replace_underscore(name) ==
    [i \in DOMAIN name |-> IF name[i] = "_" THEN " " ELSE name[i]]

\* wordnet.synsets(w): the synsets that list w as a lemma
synsets(w) == {syn \in lexicon : w \in syn}

\* The set built by the two loops of lines 22-26.
collected(w) == {replace_underscore(lem) : lem \in UNION synsets(w)}

get_synonyms_keep_word(w) == collected(w)

get_synonyms(w) ==
    IF w \in collected(w) THEN collected(w) \ {w} ELSE collected(w)

\* The sequences that random.shuffle can leave of the elements of S.
Shuffles(S) ==
    {p \in [1..Cardinality(S) -> S] : \A i, j \in DOMAIN p : p[i] = p[j] => i = j}

\* Draws made by random.shuffle on a list of length len (one per swap).
ShuffleDraws(len) == IF len > 1 THEN len - 1 ELSE 0

RngKeep(r, k) == r

\* The global generator after k more draws.
RngAdvance(r, k) == r + k

ReplaceFirst(ws, w, synonym) ==
    [i \in DOMAIN ws |->
        IF ws[i] = w /\ \A j \in 1..(i - 1) : ws[j] # w THEN synonym ELSE ws[i]]

\* [synonym if word == random_word else word for word in new_words]
ReplaceAll(ws, w, synonym) ==
    [i \in DOMAIN ws |-> IF ws[i] = w THEN synonym ELSE ws[i]]

GateInclusive(d, rate) == d <= rate

\* random.uniform(0, 1) < augment_rate
Gate(d, rate) == d < rate

LoopBreakLate(num, limit) == num > limit

\* if num_replaced >= n: break
LoopBreak(num, limit) == num >= limit

----------------------------------------------------------------------------
\* Values of the variables a specification does not use.
SynIdle == word = <<>> /\ syn_result = {}
SRIdle ==
    /\ caller = "none" /\ sentence = <<>> /\ n = 0 /\ words = <<>>
    /\ new_words = <<>> /\ random_word_list = <<>> /\ idx = 0
    /\ num_replaced = 0 /\ replaced = {} /\ result = <<>>
AugIdle ==
    /\ data = <<>> /\ cur = 0 /\ augment_rate = 0 /\ draw = 0
    /\ augmented_text = <<>> /\ augmented_data = <<>>
FilterIdle == input_file = <<>> /\ output_file = <<>> /\ max_tokens = 0 /\ pos = 0
SearchIdle == trials = <<>> /\ fs = <<>> /\ best_trial = -1 /\ best_model_path = <<>>

----------------------------------------------------------------------------
\* get_synonyms called on any word against any database.
InitSyn ==
    /\ pc = "syn_call"
    /\ lexicon \in Databases
    /\ word \in QueryWords
    /\ syn_result = {}
    /\ rng = 0
    /\ SRIdle /\ AugIdle /\ FilterIdle /\ SearchIdle

CallGetSynonyms ==
    /\ pc = "syn_call"
    /\ syn_result' = get_synonyms(word)
    /\ pc' = "syn_done"
    /\ UNCHANGED <<lexicon, rng, word, srVars, augVars, filterVars, searchVars>>

NextSyn == CallGetSynonyms
SpecSyn == InitSyn /\ [][NextSyn]_vars

----------------------------------------------------------------------------
\* synonym_replacement, lines 42-46: split, copy, candidate list, shuffle.
SR_Begin ==
    /\ pc = "sr_call"
    /\ LET ws   == split(sentence)
           pool == {w \in Range(ws) : synsets(w) # {}}
       IN /\ words' = ws
          /\ new_words' = ws
          /\ random_word_list' \in Shuffles(pool)
          /\ rng' = RngAdvance(rng, ShuffleDraws(Cardinality(pool)))
          /\ pc' = IF pool = {} THEN "sr_join" ELSE "sr_loop"
    /\ num_replaced' = 0
    /\ idx' = 1
    /\ replaced' = {}
    /\ UNCHANGED <<lexicon, caller, sentence, n, result, synVars, augVars,
                   filterVars, searchVars>>

\* One iteration of the for loop, lines 47-54.
SR_Iterate ==
    /\ pc = "sr_loop"
    /\ LET random_word == random_word_list[idx]
           synonyms    == get_synonyms(random_word)
       IN /\ IF Cardinality(synonyms) >= 1
             THEN \E synonym \in synonyms :
                    /\ new_words' = ReplaceAll(new_words, random_word, synonym)
                    /\ num_replaced' = num_replaced + 1
                    /\ replaced' = replaced \cup {random_word}
                    /\ rng' = RngAdvance(rng, 1)
             ELSE UNCHANGED <<new_words, num_replaced, replaced, rng>>
          /\ IF LoopBreak(num_replaced', n) \/ idx = Len(random_word_list)
             THEN pc' = "sr_join" /\ idx' = idx
             ELSE pc' = "sr_loop" /\ idx' = idx + 1
    /\ UNCHANGED <<lexicon, caller, sentence, n, words, random_word_list, result,
                   synVars, augVars, filterVars, searchVars>>

\* Lines 56-57.
SR_Return ==
    /\ pc = "sr_join"
    /\ result' = join(new_words)
    /\ pc' = "sr_done"
    /\ UNCHANGED <<lexicon, rng, caller, sentence, n, words, new_words,
                   random_word_list, idx, num_replaced, replaced, synVars, augVars,
                   filterVars, searchVars>>

\* synonym_replacement called on any sentence with any n against any database.
InitSR ==
    /\ pc = "sr_call"
    /\ lexicon \in Databases
    /\ caller = "direct"
    /\ sentence \in Sentences
    /\ n \in 0..MaxN
    /\ words = <<>> /\ new_words = <<>> /\ random_word_list = <<>> /\ idx = 0
    /\ num_replaced = 0 /\ replaced = {} /\ result = <<>>
    /\ rng = 0
    /\ SynIdle /\ AugIdle /\ FilterIdle /\ SearchIdle

NextSR == SR_Begin \/ SR_Iterate \/ SR_Return
SpecSR == InitSR /\ [][NextSR]_vars

----------------------------------------------------------------------------
\* The database and the texts the dataset is drawn from: "q" and "f" are
\* synonyms of each other, and "f" also has the multi-word synonym "f q".
LexiconSample == { { <<"q">>, <<"f">> }, { <<"f">>, <<"f", "_", "q">> } }
Texts == { <<"q", " ", "f">>, <<"q", " ", " ", "q">>, <<"q", "q">>, <<"f">> }
Datasets ==
    UNION {[1..k -> {[text |-> t] : t \in Texts}] : k \in 1..MaxExamples}

\* augment_example, line 71: the draw and the choice of the branch.
AE_Gate ==
    /\ pc = "ae_call"
    /\ \E d \in 0..(RateDenom - 1) :
        /\ draw' = d
        /\ rng' = RngAdvance(rng, 1)
        /\ IF Gate(d, augment_rate)
           THEN /\ sentence' = data[cur].text
                /\ caller' = "augment_example"
                /\ pc' = "sr_call"
                /\ UNCHANGED augmented_text
           ELSE /\ augmented_text' = data[cur].text
                /\ pc' = "ae_ret"
                /\ UNCHANGED <<sentence, caller>>
    /\ UNCHANGED <<lexicon, n, words, new_words, random_word_list, idx,
                   num_replaced, replaced, result, data, cur, augment_rate,
                   augmented_data, synVars, filterVars, searchVars>>

\* Line 71: synonym_replacement has returned and its value is bound.
AE_Assign ==
    /\ pc = "sr_done"
    /\ caller = "augment_example"
    /\ augmented_text' = result
    /\ pc' = "ae_ret"
    /\ UNCHANGED <<lexicon, rng, srVars, data, cur, augment_rate, draw,
                   augmented_data, synVars, filterVars, searchVars>>

\* Line 72, and Dataset.map of line 102 moving to the next example.
AE_Return ==
    /\ pc = "ae_ret"
    /\ augmented_data' = Append(augmented_data, [text |-> augmented_text])
    /\ IF cur < Len(data)
       THEN cur' = cur + 1 /\ pc' = "ae_call"
       ELSE cur' = cur /\ pc' = "map_done"
    /\ UNCHANGED <<lexicon, rng, srVars, data, augment_rate, draw, augmented_text,
                   synVars, filterVars, searchVars>>

\* data.map(lambda example: augment_example(example, augment_rate, n)).
InitAug ==
    /\ pc = "ae_call"
    /\ lexicon = LexiconSample
    /\ data \in Datasets
    /\ cur = 1
    /\ augment_rate \in 0..RateDenom
    /\ n \in 0..MaxN
    /\ draw = 0 /\ augmented_text = <<>> /\ augmented_data = <<>>
    /\ caller = "none" /\ sentence = <<>> /\ words = <<>> /\ new_words = <<>>
    /\ random_word_list = <<>> /\ idx = 0 /\ num_replaced = 0 /\ replaced = {}
    /\ result = <<>>
    /\ rng = 0
    /\ SynIdle /\ FilterIdle /\ SearchIdle

NextAug == AE_Gate \/ SR_Begin \/ SR_Iterate \/ SR_Return \/ AE_Assign \/ AE_Return
SpecAug == InitAug /\ [][NextAug]_vars

----------------------------------------------------------------------------
\* Properties of get_synonyms.

\* C5: the query word is never an element of get_synonyms(word), whatever
\* the database holds.
C5_WordNotItsOwnSynonym == pc = "syn_done" => word \notin syn_result

\* The word was among the collected lemmas, was removed, and others remain.
C5_Witness ==
    /\ pc = "syn_done"
    /\ word \in collected(word)
    /\ syn_result # {}

----------------------------------------------------------------------------
\* Properties of synonym_replacement.

InSynonymReplacement == pc \in {"sr_loop", "sr_join", "sr_done"}
CandidatePool == Range(random_word_list)

\* C1: for every n >= 0, n = 0 included, the number of distinct candidate
\* words substituted is at most n after every iteration and at the end.
C1_AtMostNReplaced == InSynonymReplacement => Cardinality(replaced) <= n

\* C2: synonym_replacement(S, 0) returns the tokens of S rejoined with single
\* spaces, every token unchanged.
C2_ZeroReplacementsIsIdentity ==
    (pc = "sr_done" /\ n = 0) => result = join(split(sentence))

\* The case of C6: every candidate has a synonym and 1 <= n <= k.
C6_Case ==
    /\ pc = "sr_done"
    /\ n >= 1
    /\ n <= Cardinality(CandidatePool)
    /\ \A w \in CandidatePool : get_synonyms(w) # {}

\* The candidates none of whose positions still holds the original word.
NoLongerOriginal ==
    {w \in CandidatePool : \A i \in DOMAIN words : words[i] = w => new_words[i] # w}

\* C6 as stated: exactly n candidates are replaced (their positions no longer
\* hold the original word), every other token is unchanged at its position,
\* and the output has as many tokens as the input.
C6_ExactlyNReplaced ==
    C6_Case =>
        /\ Cardinality(NoLongerOriginal) = n
        /\ \A i \in DOMAIN words :
              words[i] \notin NoLongerOriginal => new_words[i] = words[i]
        /\ Len(split(result)) = Len(words)

\* C6 as amended: exactly n substitutions are made, of n distinct candidates;
\* a position whose input token was not substituted holds its input token; a
\* position whose input token was substituted holds a synonym of a substituted
\* candidate; the working copy keeps its length and is returned joined.
C6_ExactlyNSubstitutions ==
    C6_Case =>
        /\ num_replaced = n
        /\ Cardinality(replaced) = n
        /\ replaced \subseteq CandidatePool
        /\ Len(new_words) = Len(words)
        /\ \A i \in DOMAIN words :
              IF words[i] \in replaced
              THEN new_words[i] \in UNION {get_synonyms(w) : w \in replaced}
              ELSE new_words[i] = words[i]
        /\ result = join(new_words)

\* Two candidates, one substitution: the other candidate is left in place.
C6_Witness ==
    /\ C6_Case
    /\ n = 1
    /\ Cardinality(CandidatePool) = 2
    /\ \E i \in DOMAIN words : words[i] \in replaced /\ new_words[i] # words[i]
    /\ \E i \in DOMAIN words : words[i] \in CandidatePool \ replaced

\* Positions that held the same token in the input hold the same token in
\* the working copy.
C10_SameInSameOut ==
    InSynonymReplacement =>
        \A i, j \in DOMAIN words : words[i] = words[j] => new_words[i] = new_words[j]

\* A substituting iteration puts one synonym of the candidate at every position
\* of the working copy that holds the candidate, leaves the other positions
\* alone, and adds one to the counter.
C10_Substitution ==
    (pc = "sr_loop" /\ num_replaced' # num_replaced) =>
        /\ num_replaced' = num_replaced + 1
        /\ \E synonym \in get_synonyms(random_word_list[idx]) :
              \A i \in DOMAIN new_words :
                  new_words'[i] = IF new_words[i] = random_word_list[idx]
                                  THEN synonym ELSE new_words[i]

\* C10: a substitution replaces every occurrence of the candidate in the
\* working copy with the one chosen synonym and increments the counter once;
\* so equal input tokens stay equal in the working copy after every iteration.
C10_EveryOccurrenceReplaced == []C10_SameInSameOut /\ [][C10_Substitution]_vars

\* A candidate that occurs twice has been substituted.
C10_Witness ==
    /\ pc = "sr_done"
    /\ \E i, j \in DOMAIN words :
          i # j /\ words[i] = words[j] /\ words[i] \in replaced

----------------------------------------------------------------------------
\* Properties of augment_example.

\* While synonym_replacement runs the draw was below the rate and the text
\* of the example is its argument; at the return the text is the augmenter's
\* result or the unchanged text, by the same comparison; with rate 0 every
\* returned text equals its input.
C4_Branch ==
    /\ (pc \in {"sr_call", "sr_loop", "sr_join", "sr_done"}) =>
          (draw < augment_rate /\ sentence = data[cur].text)
    /\ pc = "ae_ret" =>
          augmented_text = IF draw < augment_rate THEN result ELSE data[cur].text
    /\ augment_rate = 0 =>
          \A i \in DOMAIN augmented_data : augmented_data[i].text = data[i].text

\* The gate draws one value.
C4_OneDraw == pc = "ae_call" => rng' = rng + 1

\* C4: augment_example draws one uniform value and returns the augmented text
\* if and only if the draw is strictly below augment_rate, the unchanged text
\* otherwise; with augment_rate = 0 the text is returned unchanged for every
\* draw.
C4_GateIsStrict == []C4_Branch /\ [][C4_OneDraw]_vars

\* The augmenting branch was taken and changed the text.
C4_Witness ==
    /\ pc = "ae_ret"
    /\ draw < augment_rate
    /\ augmented_text # data[cur].text

\* C9 as stated: a call changes no shared state, the global random source
\* included.
C9_NoSharedStateChanged ==
    [][rng' = rng /\ data' = data /\ lexicon' = lexicon]_vars

\* C9 as amended: a call leaves the input examples, the examples already
\* returned and the lexical database unchanged, and it advances the global
\* random source: by one draw at the gate, and never backwards.
C9_OnlyRandomSourceAdvances ==
    [][/\ data' = data
       /\ lexicon' = lexicon
       /\ \A i \in DOMAIN augmented_data : augmented_data'[i] = augmented_data[i]
       /\ rng' >= rng
       /\ pc = "ae_call" => rng' > rng]_vars

\* The second example is gated after the first call consumed more than its
\* gate draw.
C9_Witness == pc = "ae_call" /\ cur = 2 /\ rng > 1

----------------------------------------------------------------------------
\* The corpus filter.

LineChar == {"a", " "}
Lines    == UNION {[1..k -> LineChar] : k \in 0..MaxLineLen}
Files    == UNION {[1..k -> Lines] : k \in 0..MaxLines}

\* What an earlier run may have left in the output file.
StaleOutput == << <<"a", "a", "a">> >>

\* Characters of the longest piece in the tokenizer's vocabulary.
PieceLen == 2

\* WordPiece on one word: the longest piece first, then the rest.
RECURSIVE wordpiece(_)
wordpiece(w) ==
    IF Len(w) <= PieceLen THEN <<w>>
    ELSE <<SubSeq(w, 1, PieceLen)>> \o wordpiece(SubSeq(w, PieceLen + 1, Len(w)))

RECURSIVE PiecesOf(_)
PiecesOf(ws) == IF ws = <<>> THEN <<>> ELSE wordpiece(Head(ws)) \o PiecesOf(Tail(ws))

\* tokenizer.tokenize(line): whitespace split, then WordPiece on every word.
tokenize(line) == PiecesOf(split(line))

KeepStrict(tokens, limit) == Len(tokens) < limit

\* if len(tokens) <= max_tokens
Keep(tokens, limit) == Len(tokens) <= limit

\* Lines 88-89: the tokenizer is loaded and both files are opened; mode 'w'
\* truncates the output file.
Filter_Open ==
    /\ pc = "filter_call"
    /\ output_file' = <<>>
    /\ pos' = 1
    /\ pc' = IF input_file = <<>> THEN "filter_done" ELSE "filter_loop"
    /\ UNCHANGED <<lexicon, rng, input_file, max_tokens, synVars, srVars, augVars,
                   searchVars>>

\* Lines 90-93: one line of the input file.
Filter_Line ==
    /\ pc = "filter_loop"
    /\ LET line   == input_file[pos]
           tokens == tokenize(line)
       IN output_file' = IF Keep(tokens, max_tokens)
                         THEN Append(output_file, line)
                         ELSE output_file
    /\ pos' = pos + 1
    /\ pc' = IF pos = Len(input_file) THEN "filter_done" ELSE "filter_loop"
    /\ UNCHANGED <<lexicon, rng, input_file, max_tokens, synVars, srVars, augVars,
                   searchVars>>

InitFilter ==
    /\ pc = "filter_call"
    /\ input_file \in Files
    /\ output_file \in {<<>>, StaleOutput}
    /\ max_tokens \in 0..MaxTokens
    /\ pos = 0
    /\ lexicon = {}
    /\ rng = 0
    /\ SynIdle /\ SRIdle /\ AugIdle /\ SearchIdle

NextFilter == Filter_Open \/ Filter_Line
SpecFilter == InitFilter /\ [][NextFilter]_vars

WithinLimit(line) == Len(tokenize(line)) <= max_tokens

\* C3: the output is exactly the subsequence of the input lines whose token
\* count is <= max_tokens, verbatim and in input order, at the end and after
\* every line read.
C3_OutputIsFilteredInput ==
    /\ pc = "filter_loop" =>
          output_file = SelectSeq(SubSeq(input_file, 1, pos - 1), WithinLimit)
    /\ pc = "filter_done" =>
          /\ output_file = SelectSeq(input_file, WithinLimit)
          /\ \A i \in DOMAIN output_file : Len(tokenize(output_file[i])) <= max_tokens

\* A line at the limit was kept after a longer line was dropped.
C3_Witness ==
    /\ pc = "filter_done"
    /\ Len(input_file) = 2
    /\ Len(tokenize(input_file[1])) > max_tokens
    /\ Len(tokenize(input_file[2])) = max_tokens
    /\ output_file = <<input_file[2]>>

----------------------------------------------------------------------------
\* The hyperparameter search.

\* study.optimize(model_training_function, n_trials=3)
n_trials == 3

TrialNumbers == 0..(n_trials - 1)

\* Sample values of the three suggest_* calls. In a trial record eval_loss
\* and value are 0 until set, and eval_nan tells that the loss is nan.
EpochChoices        == {1, 5}
BatchSizeChoices    == {8, 16}
LearningRateChoices == {5, 50}     \* in units of 1e-5
EvalLosses          == 1..MaxLoss

\* f'./best_model_trial_{trial.number}'
ModelPath(number) == <<"./best_model_trial_", number>>
ModelPaths == {ModelPath(k) : k \in TrialNumbers}

\* The content of a model directory: absent, left by an earlier run, or
\* written by a trial of this run.
Absent     == <<"absent">>
Stale      == <<"stale">>
SavedBy(k) == <<"trial", k>>

InProgress(t) == t.stage \in {"sampled", "trained", "evaluated", "saved"}

CanStartAnyTime(ts) == TRUE

\* study.optimize runs with n_jobs = 1: the next trial is asked for when the
\* objective of the previous one has returned.
CanStartTrial(ts) == \A i \in DOMAIN ts : ~InProgress(ts[i])

BetterMaximize(a, b) == a > b

\* optuna.create_study(direction="minimize")
Better(a, b) == a < b

Completed(ts) == {i \in DOMAIN ts : ts[i].stage = "COMPLETE"}

\* study.best_trial: the completed trial with the best value, the earliest
\* of them on a tie.
BestOf(ts) ==
    CHOOSE i \in Completed(ts) :
        \A j \in Completed(ts) \ {i} :
            \/ Better(ts[i].value, ts[j].value)
            \/ ts[i].value = ts[j].value /\ i < j

\* Lines 130-138: a new trial, its model and its sampled hyperparameters.
Trial_Start ==
    /\ pc = "optimize"
    /\ Len(trials) < n_trials
    /\ CanStartTrial(trials)
    /\ \E e \in EpochChoices, b \in BatchSizeChoices, lr \in LearningRateChoices :
          trials' = Append(trials,
                           [number |-> Len(trials), stage |-> "sampled",
                            num_train_epochs |-> e,
                            per_device_train_batch_size |-> b,
                            learning_rate |-> lr,
                            eval_nan |-> FALSE, eval_loss |-> 0, value |-> 0])
    /\ UNCHANGED <<pc, lexicon, rng, fs, best_trial, best_model_path, synVars,
                   srVars, augVars, filterVars>>

\* Line 147: trainer.train().
Trial_Train ==
    \E i \in DOMAIN trials :
        /\ pc = "optimize"
        /\ trials[i].stage = "sampled"
        /\ trials' = [trials EXCEPT ![i].stage = "trained"]
        /\ UNCHANGED <<pc, lexicon, rng, fs, best_trial, best_model_path, synVars,
                       srVars, augVars, filterVars>>

\* Line 148: trainer.evaluate().
Trial_Evaluate ==
    \E i \in DOMAIN trials :
        /\ pc = "optimize"
        /\ trials[i].stage = "trained"
        /\ \/ \E loss \in EvalLosses :
                 trials' = [trials EXCEPT ![i].stage = "evaluated", ![i].eval_loss = loss]
           \/ trials' = [trials EXCEPT ![i].stage = "evaluated", ![i].eval_nan = TRUE]
        /\ UNCHANGED <<pc, lexicon, rng, fs, best_trial, best_model_path, synVars,
                       srVars, augVars, filterVars>>

\* Lines 130-150: loading, training, evaluation or saving raises;
\* study.optimize does not catch it, the trial is marked failed and the
\* script ends.
Trial_Raises ==
    \E i \in DOMAIN trials :
        /\ pc = "optimize"
        /\ trials[i].stage \in {"sampled", "trained", "evaluated"}
        /\ trials' = [trials EXCEPT ![i].stage = "FAIL"]
        /\ pc' = "aborted"
        /\ UNCHANGED <<lexicon, rng, fs, best_trial, best_model_path, synVars,
                       srVars, augVars, filterVars>>

\* Line 150: model.save_pretrained.
Trial_Save ==
    \E i \in DOMAIN trials :
        /\ pc = "optimize"
        /\ trials[i].stage = "evaluated"
        /\ fs' = [fs EXCEPT ![ModelPath(trials[i].number)] = SavedBy(trials[i].number)]
        /\ trials' = [trials EXCEPT ![i].stage = "saved"]
        /\ UNCHANGED <<pc, lexicon, rng, best_trial, best_model_path, synVars,
                       srVars, augVars, filterVars>>

\* Line 152: the objective returns; the study records the value, and marks
\* the trial failed when the value is nan.
Trial_Return ==
    \E i \in DOMAIN trials :
        /\ pc = "optimize"
        /\ trials[i].stage = "saved"
        /\ trials' = IF trials[i].eval_nan
                     THEN [trials EXCEPT ![i].stage = "FAIL"]
                     ELSE [trials EXCEPT ![i].stage = "COMPLETE",
                                         ![i].value = trials[i].eval_loss]
        /\ UNCHANGED <<pc, lexicon, rng, fs, best_trial, best_model_path, synVars,
                       srVars, augVars, filterVars>>

\* Lines 159-160: study.best_trial, which raises when no trial completed.
Study_BestTrial ==
    /\ pc = "optimize"
    /\ Len(trials) = n_trials
    /\ \A i \in DOMAIN trials : ~InProgress(trials[i])
    /\ IF Completed(trials) = {}
       THEN pc' = "aborted" /\ UNCHANGED best_trial
       ELSE pc' = "best" /\ best_trial' = trials[BestOf(trials)].number
    /\ UNCHANGED <<lexicon, rng, trials, fs, best_model_path, synVars, srVars,
                   augVars, filterVars>>

\* Line 163.
Load_BestModelPath ==
    /\ pc = "best"
    /\ best_model_path' = ModelPath(best_trial)
    /\ pc' = "finished"
    /\ UNCHANGED <<lexicon, rng, trials, fs, best_trial, synVars, srVars, augVars,
                   filterVars>>

\* The model directories are absent, or left by an earlier run of the script.
InitSearch ==
    /\ pc = "optimize"
    /\ trials = <<>>
    /\ fs \in {[p \in ModelPaths |-> Absent], [p \in ModelPaths |-> Stale]}
    /\ best_trial = -1
    /\ best_model_path = <<>>
    /\ lexicon = {}
    /\ rng = 0
    /\ SynIdle /\ SRIdle /\ AugIdle /\ FilterIdle

NextSearch ==
    \/ Trial_Start
    \/ Trial_Train
    \/ Trial_Evaluate
    \/ Trial_Raises
    \/ Trial_Save
    \/ Trial_Return
    \/ Study_BestTrial
    \/ Load_BestModelPath
SpecSearch == InitSearch /\ [][NextSearch]_vars

\* C7: trials run one at a time: at most one trial is in progress, and a
\* trial has started only if every earlier trial has returned with its model
\* saved under ./best_model_trial_<number>.
C7_TrialsSequential ==
    /\ Cardinality({i \in DOMAIN trials : InProgress(trials[i])}) <= 1
    /\ \A i \in DOMAIN trials : \A j \in DOMAIN trials :
          i < j =>
              /\ trials[i].stage \in {"COMPLETE", "FAIL"}
              /\ fs[ModelPath(trials[i].number)] = SavedBy(trials[i].number)

\* The last trial is training after the two before it returned.
C7_Witness ==
    /\ Len(trials) = n_trials
    /\ trials[n_trials].stage = "trained"
    /\ \A i \in 1..(n_trials - 1) : trials[i].stage = "COMPLETE"

AllTrialsCompleted ==
    /\ Len(trials) = n_trials
    /\ \A i \in DOMAIN trials : trials[i].stage = "COMPLETE"

\* C8: after all trials have completed, the best trial's loss is the minimum
\* over the trial records, and the final model path is the directory that
\* trial saved.
C8_BestIsMinimumAndSaved ==
    (pc = "finished" /\ AllTrialsCompleted) =>
        /\ best_trial \in TrialNumbers
        /\ \A i \in DOMAIN trials :
              trials[best_trial + 1].value <= trials[i].value
        /\ trials[best_trial + 1].value = trials[best_trial + 1].eval_loss
        /\ best_model_path = ModelPath(best_trial)
        /\ best_model_path \in DOMAIN fs
        /\ fs[best_model_path] = SavedBy(best_trial)

\* The best trial is the last one and its directory holds this run's model.
C8_Witness ==
    /\ pc = "finished"
    /\ AllTrialsCompleted
    /\ best_trial = n_trials - 1
    /\ \A i \in 1..(n_trials - 1) : trials[i].value > trials[n_trials].value
    /\ fs[best_model_path] # Stale

====
